---- MODULE Spec2Model ----
(***************************************************************************)
(* File-based fence request/response rendezvous of the fence agents:       *)
(* the Requester (fence_gfs2_recorder.py) and the four Watcher programs    *)
(* (event-driven and polling, gfs2_recorder and fence_recorder), sharing   *)
(* a request directory and a response directory.                           *)
(*                                                                         *)
(* Time is counted in ticks of 0.1 s.  Only the Requester's sleeps advance *)
(* the clock; the Watcher runs at an arbitrary relative speed.             *)
(***************************************************************************)
EXTENDS Integers, Sequences, FiniteSets, TLC

\* ------------------------------------------------------------------ bounds
\* Number of write() calls a file's content takes to reach the directory.
Chunks == 2
\* Environment faults (failed open / write / read / remove) injected per run.
MaxFaults == 1
\* Samples wait_for_file_complete takes before its window is over (the code's
\* 5 s window of 0.1 s sleeps makes 50).
SampleWindow == 3
\* Largest timeout (ticks) handed directly to wait_for_fence_response.
MaxTimeoutTicks == 23

\* ------------------------------------------------------- program constants
\* poll_interval = 0.5 s, in ticks
poll_interval == 5
\* len(processed_files) > 1000 clears the set
ProcessedCap == 1000

SecondsToTicks(s) == s * 10

\* ------------------------------------------------------------------ inputs
Actions == {"reboot", "monitor"}
Targets == {"rabbit-03"}
\* request ids: one request left in the directory by an earlier invocation,
\* and the fresh uuid4 of the invocation modelled
IdPool == {"id-old", "id-new"}
OldId == "id-old"
\* str(uuid.uuid4()): a value no earlier call returned
uuid4Reuse(used) == CHOOSE i \in used : TRUE
uuid4(used) == CHOOSE i \in IdPool \ used : TRUE
NewId == uuid4({OldId})
Ids == {OldId, NewId}
None == "None"
\* What the tools discovery shells out to can do.  `which`: found, not found
\* (non-zero return code), or no `which` executable at all.
WhichOutcomes == {"found", "notfound", "missing"}
Item(name, type) == [name |-> name, type |-> type]
\* kubectl get nnfstorage: timeout, non-zero return code, empty stdout, stdout
\* that is no JSON, JSON of another shape, or a document with items
KubectlOutputs ==
    {[kind |-> k, items |-> <<>>] :
        k \in {"timeout", "fail", "empty", "badjson", "badshape"}}
    \cup {[kind |-> "items", items |-> its] :
            its \in {<<Item("fs-a", "gfs2"), Item("fs-b", "gfs2")>>,
                     <<Item("fs-x", "lustre"), Item("fs-a", "gfs2")>>,
                     <<Item("fs-x", "lustre")>>}}
\* pcs status resources | grep: exception or timeout, nothing matched, or
\* output from which the parsing loop extracts these names
DlmOutputs ==
    {[kind |-> k, names |-> <<>>] : k \in {"timeout", "fail", "ok"}}
    \cup {[kind |-> "ok", names |-> n] :
            n \in {<<"fs-a", "fs-b">>, <<"fs-b", "fs-a", "fs-b">>}}
\* pcs config show | grep
PcsOutputs ==
    {[kind |-> k, names |-> <<>>] : k \in {"fail", "ok"}}
    \cup {[kind |-> "ok", names |-> <<"fs-c">>]}
\* One invocation's environment: the GFS2_DISCOVERY_ENABLED variable is
\* "true" (env), --no-gfs2-discovery is given (opt), the tools, and whether
\* appends to the two event files of LOG_DIR succeed ("ok") or may fail, each
\* on its own ("flaky")
AllTools == [env : BOOLEAN, opt : BOOLEAN, which : WhichOutcomes,
             kubectl : KubectlOutputs, dlm : DlmOutputs, pcs : PcsOutputs,
             log : {"ok"}]
NoTools == [env |-> TRUE, opt |-> FALSE, which |-> "notfound", log |-> "ok",
            kubectl |-> [kind |-> "fail", items |-> <<>>],
            dlm |-> [kind |-> "fail", names |-> <<>>],
            pcs |-> [kind |-> "fail", names |-> <<>>]]
KubectlTools == [NoTools EXCEPT !.which = "found",
                   !.kubectl = [kind |-> "items",
                                items |-> <<Item("fs-a", "gfs2"), Item("fs-b", "gfs2")>>]]
NoWhich == [NoTools EXCEPT !.which = "missing"]
FlakyLog(t) == [t EXCEPT !.log = "flaky"]
MainTools == {KubectlTools, NoWhich}
\* Watcher programs; "custom" is an operator-supplied external responder
Variants == {"gfs2_poll", "gfs2_event", "fr_poll", "fr_event", "custom"}
PollVariants == {"gfs2_poll", "fr_poll"}
EventVariants == {"gfs2_event", "fr_event"}
FrVariants == {"fr_poll", "fr_event"}

VARIABLES
    \* Requester (one invocation of fence_gfs2_recorder main)
    rpc, raction, rtarget, rtimeout, rfs, rid, now, start_time,
    rdata, rret, exitCode, audit, logs,
    \* another invocation of the Requester that shares the directories
    other,
    \* the Kubernetes power-state agent (fence_nnf) and the resources it reads
    nnf,
    \* before the request: tool environment, discovery trace, the sweep
    tools, dtrace, rlist, rfile, gcRemoved, probe,
    \* the two directories
    reqDir, respDir,
    \* Watcher
    variant, wpc, wscan, wcur, wreq, wlast, wsamples, wres, processed, older,
    queue,
    \* environment
    faults,
    \* history (not read by the program); wfail is how the Watcher's processing
    \* of the file it last took up failed, None while it has not
    fenceCalls, callsSinceClear, respWrites, clears, rParsedPartial,
    wParsedPartial, rSawComplete, wfail

preVars == <<tools, dtrace, rlist, rfile, gcRemoved, probe>>
reqVars == <<rpc, raction, rtarget, rtimeout, rfs, rid, now, start_time,
             rdata, rret, exitCode, audit, logs, other, nnf, preVars>>
dirVars == <<reqDir, respDir>>
watchVars == <<variant, wpc, wscan, wcur, wreq, wlast, wsamples, wres, processed,
               older, queue>>
histRest == <<fenceCalls, callsSinceClear, respWrites, clears, rParsedPartial,
              wParsedPartial, rSawComplete>>
histVars == <<histRest, wfail>>
vars == <<reqVars, dirVars, watchVars, faults, histVars>>

\* ------------------------------------------------------------------- files
\* A file is its size in chunks written (-1: no such file) and the content
\* its writer is putting there; it is complete when size = Chunks.
NoData == [kind |-> "none"]
NoFile == [size |-> -1, data |-> NoData, aged |-> FALSE]
Exists(file) == file.size >= 0
Complete(file) == file.size = Chunks

\* json.dumps(request_data) of write_fence_request
RequestDataNoId(id, action, target, fs) ==
    [kind |-> "object", keys |-> {"action", "target_node"},
     request_id |-> id, action |-> action,
     target_node |-> target, fskey |-> "gfs2_filesystems", fs |-> fs]
RequestData(id, action, target, fs) ==
    [kind |-> "object", keys |-> {"request_id", "action", "target_node"},
     request_id |-> id, action |-> action,
     target_node |-> target, fskey |-> "gfs2_filesystems", fs |-> fs]

\* json.dumps(response_data) of process_fence_request
ResponseData(id, success, action, target, message) ==
    [kind |-> "object", keys |-> {"success", "message", "action_performed"},
     request_id |-> id, success |-> success, action_performed |-> action,
     target_node |-> target, message |-> message]

\* json.load(f): the parsed document, or "error" for a JSONDecodeError.  A
\* proper prefix of a JSON document (size < Chunks, the empty file included)
\* does not parse.
ParseError == [kind |-> "error"]
json_load(file) ==
    IF ~Complete(file) \/ file.data.kind = "garbage" THEN ParseError ELSE file.data

\* Response file names: <request_id>.json (gfs2_recorder) and
\* <target_node>-<request_id>.json (fence_recorder)
RespNames == ({"", None} \cup Targets) \X (Ids \cup {None})
RequesterResponseFileOld(id) == <<"", OldId>>
RequesterResponseFile(id) == <<"", id>>
WatcherResponseFile(v, target, id) ==
    IF v \in FrVariants THEN <<target, id>> ELSE <<"", id>>

\* ------------------------------------------------------------------ events
\* watchdog events of REQUEST_DIR, dispatched in order to the handler; only
\* the event type the running handler overrides is queued.
HandledEvent(v) == IF v = "gfs2_event" THEN "created"
                   ELSE IF v = "fr_event" THEN "modified" ELSE "none"
Emit(type, id) ==
    IF wpc # "off" /\ HandledEvent(variant) = type
    THEN Append(queue, id) ELSE queue

\* Environment fault budget
CanFault == faults < MaxFaults

\* ============================================================== Requester
\* record_fence_event(action, target, filesystems, status, details)
AuditEvent(status, details) ==
    [action |-> raction, target_node |-> rtarget, gfs2_filesystems |-> rfs,
     status |-> status, details |-> details]
record_fence_event(status, details) == Append(audit, AuditEvent(status, details))

\* The two files record_fence_event appends to, as the lines they hold:
\* fence-events-detailed.jsonl (json.dumps(log_entry)) and
\* fence-events-readable.log ("[ts] ACTION=.. TARGET=.. GFS2=.. STATUS=..")
JsonLine(ev) == [fmt |-> "json", action |-> ev.action, target_node |-> ev.target_node,
                 gfs2_filesystems |-> ev.gfs2_filesystems, status |-> ev.status,
                 details |-> ev.details, pacemaker_action |-> ev.action]
ReadableLine(ev) == <<"ACTION=", ev.action, "TARGET=", ev.target_node, "GFS2=",
                      ev.gfs2_filesystems, "STATUS=", ev.status, "DETAILS=", ev.details>>
\* what earlier invocations left in the two files
EarlierEvent == [action |-> "off", target_node |-> "rabbit-03",
                 gfs2_filesystems |-> <<"none-detected">>, status |-> "completed",
                 details |-> <<"earlier">>]
EarlierLogs == [json |-> <<JsonLine(EarlierEvent)>>,
                readable |-> <<ReadableLine(EarlierEvent)>>]
\* with open(path, 'a') as f: f.write(line + '\n'), inside its own try: a
\* failure is logged and leaves the file as it was
AppendLineTruncating(file, line, fails) == IF fails THEN file ELSE <<line>>
AppendLine(file, line, fails) == IF fails THEN file ELSE Append(file, line)
\* lines 113-133: the two appends of one call, each of which may fail
WriteLogs(ev) ==
    \E jfail, rfail \in (IF tools.log = "flaky" THEN BOOLEAN ELSE {FALSE}) :
       logs' = [json |-> AppendLine(logs.json, JsonLine(ev), jfail),
                readable |-> AppendLine(logs.readable, ReadableLine(ev), rfail)]

\* (success, message, actual_action) of wait_for_fence_response; texts are
\* sequences of words
NoRet == [success |-> FALSE, message |-> <<>>, actual_action |-> None]
ParseFailure == [success |-> FALSE, message |-> <<"Failed to parse response">>,
                 actual_action |-> "error"]
TimeoutResult(timeout) ==
    [success |-> FALSE,
     message |-> <<"Fence operation", "timed out", "after", ToString(timeout)>>,
     actual_action |-> "timeout"]
\* response_data.get(key, default)
GetSuccessDefaultTrue(data) == IF "success" \in data.keys THEN data.success ELSE TRUE
GetSuccess(data) == IF "success" \in data.keys THEN data.success ELSE FALSE
GetMessage(data) == IF "message" \in data.keys THEN data.message
                    ELSE <<"Fence operation completed">>
GetActionPerformed(data) == IF "action_performed" \in data.keys
                            THEN data.action_performed ELSE "unknown"
\* lines 190-196, and the AttributeError of .get on a document that is no
\* object, caught at line 198
ResponseResult(data) ==
    IF data.kind # "object" THEN ParseFailure
    ELSE [success |-> GetSuccess(data), message |-> GetMessage(data),
          actual_action |-> GetActionPerformed(data)]

\* ------------------------------------------------------------- discovery
\* What a discovery tier returns: None, a list, or an exception it lets through
TierNone == [kind |-> "none"]
TierList(names) == [kind |-> "list", v |-> names]
TierRaised == [kind |-> "raised"]
\* `if kubectl_result:` -- None and the empty list are both false
TruthyNever(r) == FALSE
Truthy(r) == r.kind = "list" /\ r.v # <<>>

Range(q) == {q[k] : k \in 1..Len(q)}
\* list(set(names)): the distinct names, in whatever order the set yields them
ListOfSet(S) ==
    {q \in [1..Cardinality(S) -> S] : \A j, k \in 1..Cardinality(S) : q[j] = q[k] => j = k}

\* try_kubectl_discovery, lines 281-285: the names of the items whose
\* spec.fileSystemType is gfs2, in the order of the items
Gfs2Names(items) ==
    LET sel == SelectSeq(items, LAMBDA it : it.type = "gfs2")
    IN  [k \in 1..Len(sel) |-> sel[k].name]

\* try_kubectl_discovery: the `which` call is outside the try block, so its
\* FileNotFoundError leaves the function; everything after it is caught
try_kubectl_discovery(which, out) ==
    IF which = "missing" THEN TierRaised
    ELSE IF which = "notfound" THEN TierNone
    ELSE IF out.kind = "items" /\ Gfs2Names(out.items) # <<>>
         THEN TierList(Gfs2Names(out.items))
         ELSE TierNone

\* try_dlm_discovery / try_pacemaker_discovery: out.names is the list the
\* parsing loop has appended to when `returncode == 0 and stdout.strip()`
try_dlm_discovery(out) ==
    IF out.kind = "ok" /\ out.names # <<>>
    THEN {TierList(q) : q \in ListOfSet(Range(out.names))}
    ELSE {TierNone}
try_pacemaker_discovery(out) ==
    IF out.kind = "ok" /\ out.names # <<>>
    THEN {TierList(q) : q \in ListOfSet(Range(out.names))}
    ELSE {TierNone}

Call(tier, ret) == [tier |-> tier, ret |-> ret]
\* the two sentinel lists
NoneDetectedEmpty == <<>>
DiscoveryDisabled == <<"discovery-disabled">>
NoneDetected == <<"none-detected">>
\* discover_gfs2_filesystems, given the environment variable and what each
\* tier returns when it is called: the list returned (or the exception let
\* through) and the tiers called, in order
discover_gfs2_filesystems(enabled, r1, r2, r3) ==
    IF ~enabled
    THEN [raised |-> FALSE, ret |-> DiscoveryDisabled, calls |-> <<>>]
    ELSE IF r1.kind = "raised"
    THEN [raised |-> TRUE, ret |-> <<>>, calls |-> <<Call("kubectl", r1)>>]
    ELSE IF Truthy(r1)
    THEN [raised |-> FALSE, ret |-> r1.v, calls |-> <<Call("kubectl", r1)>>]
    ELSE IF Truthy(r2)
    THEN [raised |-> FALSE, ret |-> r2.v,
          calls |-> <<Call("kubectl", r1), Call("dlm", r2)>>]
    ELSE IF Truthy(r3)
    THEN [raised |-> FALSE, ret |-> r3.v,
          calls |-> <<Call("kubectl", r1), Call("dlm", r2), Call("pacemaker", r3)>>]
    ELSE [raised |-> FALSE, ret |-> NoneDetected,
          calls |-> <<Call("kubectl", r1), Call("dlm", r2), Call("pacemaker", r3)>>]

\* Exit status of the interpreter after an exception nobody caught
UncaughtExit == 1

\* main, lines 509-510: the option clears the module global, which only
\* do_action_monitor reads
GFS2_DISCOVERY_ENABLED(t) == t.env /\ ~t.opt

\* do_action_monitor: 1 when LOG_DIR is not writable; otherwise it runs
\* `which` (when the global is set), whose absence raises, and returns 0
do_action_monitor(writable, enabled, which) ==
    IF ~writable THEN 1
    ELSE IF enabled /\ which = "missing" THEN UncaughtExit
    ELSE 0

\* ----------------------------------------------------------------- sweep
\* cleanup_old_requests, line 217: age > max_age_seconds
TooOldAlways(file) == TRUE
TooOld(file) == file.aged

\* main, lines 538-549: the monitor action leaves through do_action_monitor;
\* every other action starts cleanup_old_requests() with os.listdir(REQUEST_DIR)
MainDispatch ==
    /\ UNCHANGED <<logs, other, nnf>>
    /\ rpc = "main"
    /\ IF raction = "monitor"
       THEN /\ \E writable \in BOOLEAN :
                 /\ exitCode' = do_action_monitor(writable,
                                     GFS2_DISCOVERY_ENABLED(tools), tools.which)
                 /\ probe' = IF writable THEN "writable" ELSE "unwritable"
            /\ rpc' = "done"
            /\ UNCHANGED rlist
       ELSE /\ rlist' = {i \in Ids : Exists(reqDir[i])}
            /\ rpc' = IF rlist' = {} THEN "discover" ELSE "sweep"
            /\ UNCHANGED <<exitCode, probe>>
    /\ UNCHANGED <<raction, rtarget, rtimeout, rfs, rid, now, start_time, rdata,
                   rret, audit, tools, dtrace, rfile, gcRemoved, dirVars,
                   watchVars, faults, histVars>>

\* cleanup_old_requests, lines 213-215: the next name of the listing and
\* os.path.isfile; a name that is no file any more is passed over
SweepCheck ==
    /\ UNCHANGED <<logs, other, nnf>>
    /\ rpc = "sweep"
    /\ rfile = None
    /\ \E f \in rlist :
         /\ rlist' = rlist \ {f}
         /\ IF Exists(reqDir[f])
            THEN rfile' = f /\ UNCHANGED rpc
            ELSE /\ rpc' = IF rlist' = {} THEN "discover" ELSE "sweep"
                 /\ UNCHANGED rfile
    /\ UNCHANGED <<raction, rtarget, rtimeout, rfs, rid, now, start_time, rdata,
                   rret, exitCode, audit, tools, dtrace, gcRemoved, probe, dirVars,
                   watchVars, faults, histVars>>

\* cleanup_old_requests, lines 216-221: os.path.getmtime and os.remove; an
\* exception of either (the file is gone, the removal fails) is caught
\* outside the loop and ends the sweep
SweepRemove ==
    /\ UNCHANGED <<logs, other, nnf>>
    /\ rpc = "sweep"
    /\ rfile # None
    /\ rfile' = None
    /\ \/ /\ ~Exists(reqDir[rfile])
          /\ rlist' = {}
          /\ rpc' = "discover"
          /\ UNCHANGED <<reqDir, gcRemoved, faults>>
       \/ /\ Exists(reqDir[rfile])
          /\ rpc' = IF rlist = {} THEN "discover" ELSE "sweep"
          /\ IF TooOld(reqDir[rfile])
             THEN /\ reqDir' = [reqDir EXCEPT ![rfile] = NoFile]
                  /\ gcRemoved' = gcRemoved \cup {[id |-> rfile, file |-> reqDir[rfile]]}
             ELSE UNCHANGED <<reqDir, gcRemoved>>
          /\ UNCHANGED <<rlist, faults>>
       \/ /\ Exists(reqDir[rfile])
          /\ TooOld(reqDir[rfile])
          /\ CanFault
          /\ faults' = faults + 1
          /\ rlist' = {}
          /\ rpc' = "discover"
          /\ UNCHANGED <<reqDir, gcRemoved>>
    /\ UNCHANGED <<raction, rtarget, rtimeout, rfs, rid, now, start_time, rdata,
                   rret, exitCode, audit, tools, dtrace, probe, respDir,
                   watchVars, histVars>>

cleanup_old_requests == SweepCheck \/ SweepRemove

\* main, lines 552-563: discover_gfs2_filesystems(target), then
\* record_fence_event(.., "requested", ..); an exception out of discovery
\* ends the process
DiscoverAndRecord ==
    /\ UNCHANGED <<other, nnf>>
    /\ rpc = "discover"
    /\ \E r2 \in try_dlm_discovery(tools.dlm),
          r3 \in try_pacemaker_discovery(tools.pcs) :
         LET d == discover_gfs2_filesystems(
                    tools.env, try_kubectl_discovery(tools.which, tools.kubectl),
                    r2, r3)
         IN  /\ dtrace' = d.calls
             /\ IF d.raised
                THEN /\ exitCode' = UncaughtExit
                     /\ rpc' = "done"
                     /\ UNCHANGED <<rfs, audit, logs>>
                ELSE /\ rfs' = d.ret
                     /\ audit' = Append(audit,
                          [action |-> raction, target_node |-> rtarget,
                           gfs2_filesystems |-> d.ret, status |-> "requested",
                           details |-> <<"Fence action", raction,
                                         "requested by Pacemaker">>])
                     /\ WriteLogs(audit'[Len(audit')])
                     /\ rpc' = "open_request"
                     /\ UNCHANGED exitCode
    /\ UNCHANGED <<raction, rtarget, rtimeout, rid, now, start_time, rdata,
                   rret, tools, rlist, rfile, gcRemoved, probe, dirVars,
                   watchVars, faults, histVars>>

\* write_fence_request: open(request_file, 'w') creates the file empty at its
\* final path; a failure returns None
OpenRequest ==
    /\ UNCHANGED <<logs, other, nnf>>
    /\ rpc = "open_request"
    /\ \/ /\ reqDir' = [reqDir EXCEPT ![NewId] =
                 [size |-> 0, aged |-> FALSE,
                  data |-> RequestData(NewId, raction, rtarget, rfs)]]
          /\ queue' = Emit("created", NewId)
          /\ rpc' = "write_request"
          /\ UNCHANGED <<faults, rid>>
       \/ /\ CanFault
          /\ faults' = faults + 1
          /\ rid' = None
          /\ rpc' = "write_failed"
          /\ UNCHANGED <<reqDir, queue>>
    /\ UNCHANGED <<raction, rtarget, rtimeout, rfs, now, start_time, rdata,
                   rret, exitCode, audit, respDir, variant, wpc, wscan, wcur,
                   wreq, wlast, wsamples, wres, processed, older, histVars>>
    /\ UNCHANGED preVars

\* write_fence_request: f.write(json.dumps(request_data)) reaches the file
\* one chunk at a time; the last chunk closes the file and returns request_id
\* to main, which enters wait_for_fence_response (start_time = time.time())
WriteRequest ==
    /\ UNCHANGED <<logs, other, nnf>>
    /\ rpc = "write_request"
    /\ \/ /\ reqDir' = [reqDir EXCEPT ![NewId].size = @ + 1]
          /\ queue' = Emit("modified", NewId)
          /\ IF reqDir[NewId].size + 1 = Chunks
             THEN rid' = NewId /\ start_time' = now /\ rpc' = "poll"
             ELSE UNCHANGED <<rid, rpc, start_time>>
          /\ UNCHANGED faults
       \/ /\ CanFault
          /\ faults' = faults + 1
          /\ rid' = None
          /\ rpc' = "write_failed"
          /\ UNCHANGED <<reqDir, queue, start_time>>
    /\ UNCHANGED <<raction, rtarget, rtimeout, rfs, now, rdata,
                   rret, exitCode, audit, respDir, variant, wpc, wscan, wcur,
                   wreq, wlast, wsamples, wres, processed, older, histVars>>
    /\ UNCHANGED preVars

\* main, lines 568-571: the status of the event recorded when
\* write_fence_request returned None
WriteFailureStatusRequested == "requested"
WriteFailureStatus == "failed"
WriteFailed ==
    /\ UNCHANGED <<other, nnf>>
    /\ rpc = "write_failed"
    /\ audit' = record_fence_event(WriteFailureStatus, <<"Failed to create fence request file">>)
    /\ WriteLogs(audit'[Len(audit')])
    /\ exitCode' = 1
    /\ rpc' = "done"
    /\ UNCHANGED <<raction, rtarget, rtimeout, rfs, rid, now, start_time, rdata,
                   rret, dirVars, watchVars, faults, histVars>>
    /\ UNCHANGED preVars

\* the loop condition of line 178
WithinTimeoutNoStart(t, start, timeout) == t < timeout
WithinTimeout(t, start, timeout) == t - start < timeout

\* wait_for_fence_response, lines 178-179 and 202-206: one turn of the loop up
\* to os.path.exists; a missing file costs one sleep of poll_interval
Poll ==
    /\ UNCHANGED <<logs, other, nnf>>
    /\ rpc = "poll"
    /\ IF WithinTimeout(now, start_time, rtimeout)
       THEN IF Exists(respDir[RequesterResponseFile(rid)])
            THEN rpc' = "load" /\ UNCHANGED <<now, rret>>
            ELSE now' = now + poll_interval /\ UNCHANGED <<rpc, rret>>
       ELSE /\ rret' = TimeoutResult(rtimeout)
            /\ rpc' = "final"
            /\ UNCHANGED now
    /\ UNCHANGED <<raction, rtarget, rtimeout, rfs, rid, start_time, rdata,
                   exitCode, audit, dirVars, watchVars, faults, histVars>>
    /\ UNCHANGED preVars

\* where the except clause of lines 198-200 leaves the loop to: it returns
AfterFailedLoadRetry == "poll"
AfterFailedLoad == "final"

\* wait_for_fence_response, lines 181-182 and 198-200: open and json.load;
\* any exception returns (False, "Failed to parse response: ..", "error")
Load ==
    /\ UNCHANGED <<logs, other, nnf>>
    /\ rpc = "load"
    /\ LET file == respDir[RequesterResponseFile(rid)] IN
       \/ /\ Exists(file)
          /\ json_load(file) # ParseError
          /\ rdata' = json_load(file)
          /\ rSawComplete' = TRUE
          /\ rpc' = "remove"
          /\ UNCHANGED <<rret, faults, rParsedPartial>>
       \/ /\ ~Exists(file) \/ json_load(file) = ParseError
          /\ rret' = ParseFailure
          /\ rParsedPartial' = (rParsedPartial \/
                                  (Exists(file) /\ ~Complete(file)
                                     /\ wpc = "resp_write"))
          /\ rpc' = AfterFailedLoad
          /\ UNCHANGED <<rdata, faults, rSawComplete>>
       \/ /\ CanFault
          /\ faults' = faults + 1
          /\ rret' = ParseFailure
          /\ rpc' = AfterFailedLoad
          /\ UNCHANGED <<rdata, rParsedPartial, rSawComplete>>
    /\ UNCHANGED <<raction, rtarget, rtimeout, rfs, rid, now, start_time,
                   exitCode, audit, dirVars, watchVars, fenceCalls,
                   callsSinceClear, respWrites, clears, wParsedPartial, wfail>>
    /\ UNCHANGED preVars

\* wait_for_fence_response, lines 185-196: os.remove (a failure is ignored),
\* then the three .get calls and the return
RemoveResponse ==
    /\ UNCHANGED <<logs, other, nnf>>
    /\ rpc = "remove"
    /\ \/ /\ respDir' = [respDir EXCEPT ![RequesterResponseFile(rid)] = NoFile]
          /\ UNCHANGED faults
       \/ /\ CanFault
          /\ faults' = faults + 1
          /\ UNCHANGED respDir
    /\ rret' = ResponseResult(rdata)
    /\ rpc' = "final"
    /\ UNCHANGED <<raction, rtarget, rtimeout, rfs, rid, now, start_time, rdata,
                   exitCode, audit, reqDir, watchVars, histVars>>
    /\ UNCHANGED preVars

\* main, lines 577-596: the terminal AuditEvent and the exit code
FinalStatusTimeout(ret) ==
    IF ret.success THEN "completed"
    ELSE IF ret.actual_action = "timeout" THEN "timeout" ELSE "failed"
FinalStatus(ret) == IF ret.success THEN "completed" ELSE "failed"
FinalDetailsNoMessage(ret) ==
    IF ret.success THEN <<"Fence action", ret.actual_action, "completed successfully">>
    ELSE <<"Fence action", raction, "failed">>
FinalDetails(ret) ==
    IF ret.success
    THEN <<"Fence action", ret.actual_action, "completed successfully:">> \o ret.message
    ELSE <<"Fence action", raction, "failed:">> \o ret.message
ExitCodeRecorded(ret) == 0
ExitCodeOf(ret) == IF ret.success THEN 0 ELSE 1
Final ==
    /\ UNCHANGED <<other, nnf>>
    /\ rpc = "final"
    /\ audit' = record_fence_event(FinalStatus(rret), FinalDetails(rret))
    /\ WriteLogs(audit'[Len(audit')])
    /\ exitCode' = ExitCodeOf(rret)
    /\ rpc' = "done"
    /\ UNCHANGED <<raction, rtarget, rtimeout, rfs, rid, now, start_time, rdata,
                   rret, dirVars, watchVars, faults, histVars>>
    /\ UNCHANGED preVars

\* ================================================================ Watcher
NoRes == [success |-> FALSE, message |-> <<>>]
NoReq == [request_id |-> None, action |-> None, target_node |-> None, fs |-> <<>>]

\* The key each Watcher reads the filesystem list from (request_data.get(key, []))
FsKey(v) == IF v \in FrVariants THEN "filesystems" ELSE "gfs2_filesystems"
ParsedRequest(v, data) ==
    [request_id |-> IF "request_id" \in data.keys THEN data.request_id ELSE None,
     action |-> IF "action" \in data.keys THEN data.action ELSE None,
     target_node |-> IF "target_node" \in data.keys THEN data.target_node ELSE None,
     fs |-> IF data.fskey = FsKey(v) THEN data.fs ELSE <<>>]

\* Where control goes when process_fence_request returns (either way): the
\* polling loop goes on with its scan, the event handler returns
AfterProcessStop(v) == "off"
AfterProcess(v) == IF v \in PollVariants THEN "iter" ELSE "idle"

\* process_fence_request (or the handler) returns; its locals are gone
Return ==
    /\ wpc' = AfterProcess(variant)
    /\ wcur' = None
    /\ wreq' = NoReq
    /\ wlast' = -1
    /\ wsamples' = 0
    /\ wres' = NoRes

\* main of a Watcher program has reached its loop / observer.start()
WatcherStart ==
    /\ wpc = "off"
    /\ wpc' = "idle"
    /\ UNCHANGED <<variant, wscan, wcur, wreq, wlast, wsamples, wres, processed, older,
                   queue, reqVars, dirVars, faults, histVars>>

\* polling main: request_files = glob.glob(REQUEST_DIR/*.json)
Scan ==
    /\ wpc = "idle"
    /\ variant \in PollVariants
    /\ wscan' = {i \in Ids : Exists(reqDir[i])}
    /\ wpc' = "iter"
    /\ UNCHANGED <<variant, wcur, wreq, wlast, wsamples, wres, processed, older, queue,
                   reqVars, dirVars, faults, histVars>>

\* polling main: the for loop is over, time.sleep(POLL_INTERVAL)
ScanDone ==
    /\ wpc = "iter"
    /\ wscan = {}
    /\ wpc' = "idle"
    /\ UNCHANGED <<variant, wscan, wcur, wreq, wlast, wsamples, wres, processed, older,
                   queue, reqVars, dirVars, faults, histVars>>

\* polling main: the next file of the scan; one in processed_files is skipped
SkipNever(f) == FALSE
SkipProcessed(f) == f \in processed
ScanNext ==
    /\ wpc = "iter"
    /\ \E f \in wscan :
         /\ wscan' = wscan \ {f}
         /\ IF SkipProcessed(f)
            THEN UNCHANGED <<wpc, wcur, wlast, wsamples, wfail>>
            ELSE /\ wcur' = f
                 /\ wlast' = -1
                 /\ wsamples' = 0
                 /\ wfail' = None
                 /\ wpc' = IF variant = "fr_poll" THEN "sample" ELSE "read"
    /\ UNCHANGED <<variant, wreq, wres, processed, older, queue,
                   reqVars, dirVars, faults, histRest>>

\* event-driven: the observer hands the next event to on_created (gfs2) or
\* on_modified (fence_recorder, which skips a path in processed_files)
Dispatch ==
    /\ wpc = "idle"
    /\ variant \in EventVariants
    /\ queue # <<>>
    /\ queue' = Tail(queue)
    /\ IF variant = "fr_event" /\ Head(queue) \in processed
       THEN UNCHANGED <<wpc, wcur, wlast, wsamples, wfail>>
       ELSE /\ wcur' = Head(queue)
            /\ wlast' = -1
            /\ wsamples' = 0
            /\ wfail' = None
            /\ wpc' = IF variant = "fr_event" THEN "sample" ELSE "read"
    /\ UNCHANGED <<variant, wscan, wreq, wres, processed, older,
                   reqVars, dirVars, faults, histRest>>

\* wait_for_file_complete: whether this sample ends the wait with True
SizeStable(size, last_size) == size = last_size /\ size > 0

\* the loop condition of wait_for_file_complete, counted in sleeps of 0.1 s
WindowOpen(samples) == samples < SampleWindow

\* The event-driven fence_recorder handler adds the path to processed_files
\* when wait_for_file_complete returns True, before process_fence_request;
\* the polling mains add it after process_fence_request has returned True
AddsBeforeProcessingAlways(v) == TRUE
AddsBeforeProcessing(v) == v = "fr_event"
\* wait_for_file_complete, one turn of its loop: os.path.getsize, compared
\* with the previous sample; a stable size returns True, anything else (a
\* missing file included) sleeps 0.1 s
Sample ==
    /\ wpc = "sample"
    /\ WindowOpen(wsamples)
    /\ LET file == reqDir[wcur] IN
       IF ~Exists(file)
       THEN /\ wsamples' = wsamples + 1
            /\ UNCHANGED <<wpc, wlast, processed>>
       ELSE IF SizeStable(file.size, wlast)
            THEN /\ wpc' = "read"
                 /\ processed' = IF AddsBeforeProcessing(variant)
                                 THEN processed \cup {wcur} ELSE processed
                 /\ UNCHANGED <<wlast, wsamples>>
            ELSE /\ wlast' = file.size
                 /\ wsamples' = wsamples + 1
                 /\ UNCHANGED <<wpc, processed>>
    /\ UNCHANGED <<variant, wscan, wcur, wreq, wres, older, queue,
                   reqVars, dirVars, faults, histVars>>

\* wait_for_file_complete: the window is over, it returns False and the file
\* is left for this pass
SampleTimeout ==
    /\ wpc = "sample"
    /\ ~WindowOpen(wsamples)
    /\ Return
    /\ wfail' = "wait"
    /\ UNCHANGED <<variant, wscan, processed, older,
                   queue, reqVars, dirVars, faults, histRest>>

\* process_fence_request: open, json.load and the .get calls; any exception
\* ends the processing of this file
ReadRequest ==
    /\ wpc = "read"
    /\ LET file == reqDir[wcur] IN
       \/ /\ Exists(file)
          /\ json_load(file).kind = "object"
          /\ wreq' = ParsedRequest(variant, json_load(file))
          /\ wpc' = "fence"
          /\ UNCHANGED <<faults, wParsedPartial, wcur, wlast, wsamples, wres, wfail>>
       \/ /\ ~Exists(file) \/ json_load(file).kind # "object"
          /\ wParsedPartial' = (wParsedPartial \/
                                  (Exists(file) /\ ~Complete(file) /\ wcur = NewId
                                     /\ rpc = "write_request"))
          /\ Return
          /\ wfail' = IF Exists(file) THEN "parse" ELSE "read"
          /\ UNCHANGED faults
       \/ /\ CanFault
          /\ faults' = faults + 1
          /\ Return
          /\ wfail' = "read"
          /\ UNCHANGED wParsedPartial
    /\ UNCHANGED <<variant, wscan, processed, older, queue,
                   reqVars, dirVars, fenceCalls, callsSinceClear, respWrites,
                   clears, rParsedPartial, rSawComplete>>

\* The message of the Response: the actuator's (polling) or the one built
\* from its boolean (event-driven)
ResponseMessage(v, ok, req) ==
    IF v \in PollVariants
    THEN IF ok THEN <<"Simulated fence", req.action, "succeeded for", req.target_node>>
         ELSE <<"Fence operation failed">>
    ELSE <<"Fence", req.action, IF ok THEN "succeeded" ELSE "failed", "for",
           req.target_node>>

\* The arguments of the call: perform_fence_action(action, target_node,
\* filesystems) in the polling programs, self.perform_fence_action(action,
\* target_node) in the event-driven ones
FenceArgs(v, req) ==
    IF v \in PollVariants THEN <<req.action, req.target_node, req.fs>>
    ELSE <<req.action, req.target_node>>

\* perform_fence_action, the pluggable unit: the shipped stub returns success,
\* a replacement returns success or failure, or raises; the exception is
\* caught by the except clause of process_fence_request, which returns.  A
\* raise counts as one of the run's environment faults.
FenceOutcomes == {"success", "failure", "raise"}
Fence ==
    /\ wpc = "fence"
    /\ fenceCalls' = [fenceCalls EXCEPT ![wcur] = @ + 1]
    /\ callsSinceClear' = [callsSinceClear EXCEPT ![wcur] = @ + 1]
    /\ \E out \in FenceOutcomes :
         IF out = "raise"
         THEN /\ CanFault
              /\ faults' = faults + 1
              /\ Return
              /\ wfail' = "fence"
         ELSE /\ wres' = [success |-> out = "success",
                          message |-> ResponseMessage(variant, out = "success", wreq)]
              /\ wpc' = "resp_open"
              /\ UNCHANGED <<faults, wcur, wreq, wlast, wsamples, wfail>>
    /\ UNCHANGED <<variant, wscan, processed, older,
                   queue, reqVars, dirVars, respWrites, clears,
                   rParsedPartial, wParsedPartial, rSawComplete>>

\* The Response the Watcher is writing for the request it parsed
WatcherResponse ==
    ResponseData(wreq.request_id, wres.success, wreq.action, wreq.target_node,
                 wres.message)
CurrentResponseFile == WatcherResponseFile(variant, wreq.target_node, wreq.request_id)

\* process_fence_request: open(response_file, 'w') creates or truncates the
\* file at its final path
RespOpen ==
    /\ wpc = "resp_open"
    /\ \/ /\ respDir' = [respDir EXCEPT ![CurrentResponseFile] =
                  [size |-> 0, aged |-> FALSE, data |-> WatcherResponse]]
          /\ wpc' = "resp_write"
          /\ UNCHANGED <<faults, wcur, wreq, wlast, wsamples, wres, wfail>>
       \/ /\ CanFault
          /\ faults' = faults + 1
          /\ Return
          /\ wfail' = "resp"
          /\ UNCHANGED respDir
    /\ UNCHANGED <<variant, wscan, processed, older,
                   queue, reqVars, reqDir, histRest>>

\* the with block of the Response write is left, and os.remove(request_file)
\* comes next, once the whole document has been written
WrittenOutEarly(size) == size >= 1
WrittenOut(size) == size = Chunks
\* process_fence_request: f.write(json.dumps(response_data)), chunk by chunk
RespWrite ==
    /\ wpc = "resp_write"
    /\ \/ /\ respDir' = [respDir EXCEPT ![CurrentResponseFile].size = @ + 1]
          /\ IF WrittenOut(respDir[CurrentResponseFile].size + 1)
             THEN /\ wpc' = "remove"
                  /\ respWrites' = [respWrites EXCEPT ![wreq.request_id] = @ + 1]
             ELSE UNCHANGED <<wpc, respWrites>>
          /\ UNCHANGED <<faults, wcur, wreq, wlast, wsamples, wres, wfail>>
       \/ /\ CanFault
          /\ faults' = faults + 1
          /\ Return
          /\ wfail' = "resp"
          /\ UNCHANGED <<respDir, respWrites>>
    /\ UNCHANGED <<variant, wscan, processed, older,
                   queue, reqVars, reqDir, fenceCalls, callsSinceClear, clears,
                   rParsedPartial, wParsedPartial, rSawComplete>>

\* polling main, lines 157-162: a request whose processing returned True joins
\* processed_files, and the set is cleared once it holds more than 1000 names
TooLarge(n) == n > ProcessedCap
\* process_fence_request: os.remove(request_file), a failure is ignored; then
\* return True
RemoveRequest ==
    /\ wpc = "remove"
    /\ \/ /\ reqDir' = [reqDir EXCEPT ![wcur] = NoFile]
          /\ UNCHANGED <<faults, wfail>>
       \/ /\ CanFault
          /\ Exists(reqDir[wcur])
          /\ faults' = faults + 1
          /\ wfail' = "remove"
          /\ UNCHANGED reqDir
    /\ Return
    /\ IF variant \in PollVariants
       THEN IF TooLarge(Cardinality(processed \cup {wcur}) + older)
            THEN /\ processed' = {}
                 /\ older' = 0
                 /\ clears' = clears + 1
                 /\ callsSinceClear' = [i \in Ids |-> 0]
            ELSE /\ processed' = processed \cup {wcur}
                 /\ UNCHANGED <<older, clears, callsSinceClear>>
       ELSE UNCHANGED <<processed, older, clears, callsSinceClear>>
    /\ UNCHANGED <<variant, wscan, queue, reqVars,
                   respDir, fenceCalls, respWrites, rParsedPartial,
                   wParsedPartial, rSawComplete>>

\* ------------------------------------------------- a custom external responder
\* What an operator-supplied responder may put at the Requester's response
\* path: an object (with or without a success key), a JSON document that is
\* no object, or text that is no JSON
CustomContents(id, action, target) ==
    {ResponseData(id, ok, action, target, <<"ok">>) : ok \in BOOLEAN}
      \cup {[ResponseData(id, TRUE, action, target, <<"ok">>)
                EXCEPT !.keys = {"message"}],
            [kind |-> "nonobject"], [kind |-> "garbage"]}

CustomOpen ==
    /\ variant = "custom"
    /\ wpc = "idle"
    /\ Complete(reqDir[NewId])
    /\ \E d \in CustomContents(NewId, reqDir[NewId].data.action,
                                reqDir[NewId].data.target_node) :
         respDir' = [respDir EXCEPT ![RequesterResponseFile(NewId)] =
                       [size |-> 0, aged |-> FALSE, data |-> d]]
    /\ wpc' = "custom_write"
    /\ UNCHANGED <<variant, wscan, wcur, wreq, wlast, wsamples, wres, processed, older,
                   queue, reqVars, reqDir, faults, histVars>>

CustomWrite ==
    /\ wpc = "custom_write"
    /\ respDir' = [respDir EXCEPT ![RequesterResponseFile(NewId)].size = @ + 1]
    /\ wpc' = IF respDir[RequesterResponseFile(NewId)].size + 1 = Chunks
              THEN "custom_done" ELSE wpc
    /\ UNCHANGED <<variant, wscan, wcur, wreq, wlast, wsamples, wres, processed, older,
                   queue, reqVars, reqDir, faults, histVars>>

\* ================================================================== system
\* The request an earlier invocation may have left in REQUEST_DIR
OldRequest(aged) ==
    [size |-> Chunks, aged |-> aged,
     data |-> RequestData(OldId, "off", "rabbit-03", <<"none-detected">>)]

\* the power-state agent is not running
NoNnf == [ready |-> "absent", fenced |-> "absent", calls |-> 0, reads |-> 0,
          patches |-> 0, op |-> "none", arg |-> "none", result |-> "none",
          status |-> "none"]

\* no other invocation is in flight
NoOther == [pc |-> "none", timeout |-> 0, waited |-> 0]

\* FENCE_TIMEOUT values explored (seconds): no wait at all, and 2 s
TimeoutChoices == {SecondsToTicks(0), SecondsToTicks(2)}

InitCommon ==
    /\ raction \in Actions
    /\ rtarget \in Targets
    /\ rfs = <<>>
    /\ rdata = NoData
    /\ rret = NoRet
    /\ exitCode = -1
    /\ audit = <<>>
    /\ logs = EarlierLogs
    /\ respDir = [n \in RespNames |-> NoFile]
    /\ variant \in Variants
    /\ wscan = {}
    /\ wcur = None
    /\ wreq = NoReq
    /\ wlast = -1
    /\ wsamples = 0
    /\ wres = NoRes
    /\ processed = {}
    /\ fenceCalls = [i \in Ids |-> 0]
    /\ callsSinceClear = [i \in Ids |-> 0]
    /\ respWrites = [i \in Ids \cup {None} |-> 0]
    /\ clears = 0
    /\ rParsedPartial = FALSE
    /\ wParsedPartial = FALSE
    /\ rSawComplete = FALSE
    /\ wfail = None
    /\ dtrace = <<>>
    /\ rlist = {}
    /\ rfile = None
    /\ gcRemoved = {}
    /\ probe = None

Init ==
    /\ InitCommon
    /\ other = NoOther
    /\ nnf = NoNnf
    /\ queue = <<>>
    /\ rpc = "main"
    /\ rid = None
    /\ now = 0
    /\ start_time = 0
    /\ rtimeout \in TimeoutChoices
    /\ tools \in MainTools
    /\ wpc \in {"off", "idle"}
    /\ older \in IF variant \in PollVariants /\ wpc = "idle"
                  THEN {0, ProcessedCap} ELSE {0}
    /\ faults = 0
    /\ reqDir \in {[i \in Ids |-> IF i = OldId THEN f ELSE NoFile] :
                      f \in {NoFile, OldRequest(TRUE)}}

RequesterNext ==
    \/ MainDispatch
    \/ cleanup_old_requests
    \/ DiscoverAndRecord
    \/ OpenRequest
    \/ WriteRequest
    \/ WriteFailed
    \/ Poll
    \/ Load
    \/ RemoveResponse
    \/ Final

WatcherNext ==
    \/ WatcherStart
    \/ Scan
    \/ ScanDone
    \/ ScanNext
    \/ Dispatch
    \/ Sample
    \/ SampleTimeout
    \/ ReadRequest
    \/ Fence
    \/ RespOpen
    \/ RespWrite
    \/ RemoveRequest

CustomNext ==
    \/ CustomOpen
    \/ CustomWrite

Next == RequesterNext \/ WatcherNext \/ CustomNext

Spec == Init /\ [][Next]_vars

\* ---------------------------------------------------------------------------
\* wait_for_fence_response alone: called with any timeout, at any clock value,
\* while no Response file ever appears
WaitInit ==
    /\ InitCommon
    /\ other = NoOther
    /\ nnf = NoNnf
    /\ queue = <<>>
    /\ rpc = "poll"
    /\ raction # "monitor"
    /\ rid = NewId
    /\ rtimeout \in 0..MaxTimeoutTicks
    /\ tools = NoTools
    /\ now \in {0, 7}
    /\ start_time = now
    /\ variant = "gfs2_poll"
    /\ wpc = "off"
    /\ older = 0
    /\ faults = 0
    /\ reqDir = [i \in Ids |-> NoFile]

WaitNext == Poll \/ Final

SpecWait == WaitInit /\ [][WaitNext]_vars

\* ---------------------------------------------------------------------------
\* The Requester up to the written request, in every tool environment, with
\* no Watcher and no I/O fault
DiscoverInit ==
    /\ InitCommon
    /\ other = NoOther
    /\ nnf = NoNnf
    /\ queue = <<>>
    /\ rpc = "main"
    /\ rid = None
    /\ now = 0
    /\ start_time = 0
    /\ rtimeout = SecondsToTicks(2)
    /\ tools \in AllTools
    /\ variant = "gfs2_poll"
    /\ wpc = "off"
    /\ older = 0
    /\ faults = MaxFaults
    /\ reqDir \in {[i \in Ids |-> IF i = OldId THEN f ELSE NoFile] :
                      f \in {NoFile, OldRequest(TRUE)}}

DiscoverNext ==
    \/ MainDispatch
    \/ cleanup_old_requests
    \/ DiscoverAndRecord
    \/ OpenRequest
    \/ WriteRequest

SpecDiscover == DiscoverInit /\ [][DiscoverNext]_vars

\* ---------------------------------------------------------------------------
\* The sweep of one invocation and a polling Watcher over a request directory
\* that already holds files: requests of earlier invocations (old or recent),
\* a request another invocation is writing, and files that are no proper
\* request
MalformedRequests(id) ==
    {[kind |-> "garbage"], [kind |-> "nonobject"],
     [RequestData(id, "off", "rabbit-03", NoneDetected) EXCEPT !.keys = {}],
     [RequestData(id, "off", "rabbit-03", NoneDetected)
        EXCEPT !.keys = {"action", "target_node"}]}

LeftoverFiles(id) ==
    {NoFile}
    \cup {[size |-> Chunks, aged |-> a,
           data |-> RequestData(id, "off", "rabbit-03", NoneDetected)] : a \in BOOLEAN}
    \cup {[size |-> 1, aged |-> FALSE,
           data |-> RequestData(id, "off", "rabbit-03", NoneDetected)]}
    \cup {[size |-> Chunks, aged |-> FALSE, data |-> d] : d \in MalformedRequests(id)}

DirInit ==
    /\ InitCommon
    /\ other = NoOther
    /\ nnf = NoNnf
    /\ queue = <<>>
    /\ rpc = "main"
    /\ raction = "reboot"
    /\ rid = None
    /\ now = 0
    /\ start_time = 0
    /\ rtimeout = SecondsToTicks(2)
    /\ tools = NoTools
    /\ variant \in PollVariants
    /\ wpc = "idle"
    /\ older = 0
    /\ faults = 0
    /\ reqDir \in {[i \in Ids |-> IF i = OldId THEN f ELSE g] :
                      f \in LeftoverFiles(OldId), g \in LeftoverFiles(NewId)}

DirNext ==
    \/ MainDispatch
    \/ cleanup_old_requests
    \/ Scan
    \/ ScanDone
    \/ ScanNext
    \/ Sample
    \/ SampleTimeout
    \/ ReadRequest
    \/ Fence
    \/ RespOpen
    \/ RespWrite
    \/ RemoveRequest

SpecDir == DirInit /\ [][DirNext]_vars

\* ---------------------------------------------------------------------------
\* One invocation whose appends to the two event files may fail, each call
\* and each file on its own, beside an external responder that may answer
AuditInit ==
    /\ InitCommon
    /\ other = NoOther
    /\ nnf = NoNnf
    /\ queue = <<>>
    /\ rpc = "main"
    /\ rid = None
    /\ now = 0
    /\ start_time = 0
    /\ rtimeout \in TimeoutChoices
    /\ tools \in {FlakyLog(t) : t \in MainTools}
    /\ variant = "custom"
    /\ wpc \in {"off", "idle"}
    /\ older = 0
    /\ faults = 0
    /\ reqDir \in {[i \in Ids |-> IF i = OldId THEN f ELSE NoFile] :
                      f \in {NoFile, OldRequest(TRUE)}}

AuditNext == RequesterNext \/ CustomNext

SpecAudit == AuditInit /\ [][AuditNext]_vars

\* ---------------------------------------------------------------------------
\* fence_nnf: set_power_status and get_power_status against the Kubernetes
\* Node resource (its Ready condition) and the NNF node resource nnf-nlc (its
\* status.fenced field), called in any order and number up to MaxCalls, while
\* the node's condition changes and an administrator may clear the field.
MaxCalls == 4
\* status of the Ready condition of the Node; "absent": no such condition
ReadyStatus == {"True", "False", "Unknown", "absent"}
\* node["status"].get("fenced", False)
FencedValues == {"absent", "false", "true"}
NnfActions == {"on", "off", "reboot"}
\* an API call returns, or raises ApiException
ApiOutcomes == {"ok", "error"}
\* the truth value of node["status"].get("fenced", False)
FencedTruthyAlways(f) == TRUE
FencedTruthy(f) == f = "true"
\* condition.type == "Ready" and condition.status == "True"
NodeReady(r) == r = "True"

\* set_power_status, lines 90-119
set_power_status ==
    /\ nnf.calls < MaxCalls
    /\ \E action \in NnfActions, rd \in ApiOutcomes, pt \in ApiOutcomes :
         LET called == [nnf EXCEPT !.calls = @ + 1, !.op = "set", !.arg = action,
                                   !.status = "none"] IN
         IF action = "on"
         THEN nnf' = [called EXCEPT !.result = "returned"]
         ELSE IF rd = "error"
         THEN nnf' = [called EXCEPT !.reads = @ + 1, !.result = "raised"]
         ELSE IF ~FencedTruthy(nnf.fenced)
         THEN nnf' = [called EXCEPT !.reads = @ + 1, !.patches = @ + 1,
                        !.fenced = IF pt = "ok" THEN "true" ELSE @,
                        !.result = IF pt = "ok" THEN "returned" ELSE "raised"]
         ELSE nnf' = [called EXCEPT !.reads = @ + 1, !.result = "returned"]

\* get_power_status and _get_nnf_node_power_status, lines 37-88; an
\* ApiException ends in fail() or in the use of the unbound `node`
get_power_status ==
    /\ nnf.calls < MaxCalls
    /\ \E rn \in ApiOutcomes, rd \in ApiOutcomes :
         LET called == [nnf EXCEPT !.calls = @ + 1, !.op = "get", !.arg = "none"] IN
         IF rn = "error"
         THEN nnf' = [called EXCEPT !.result = "raised", !.status = "none"]
         ELSE IF ~NodeReady(nnf.ready)
         THEN nnf' = [called EXCEPT !.result = "returned", !.status = "off"]
         ELSE IF rd = "error"
         THEN nnf' = [called EXCEPT !.reads = @ + 1, !.result = "raised",
                                    !.status = "none"]
         ELSE nnf' = [called EXCEPT !.reads = @ + 1, !.result = "returned",
                        !.status = IF FencedTruthy(nnf.fenced) THEN "off" ELSE "on"]

\* the kubelet reports another Ready condition
NodeChange ==
    \E r \in ReadyStatus : r # nnf.ready /\ nnf' = [nnf EXCEPT !.ready = r]

\* an administrator clears the fenced field ("that is done via
\* administrator actions", lines 93-94)
AdminUnfence ==
    /\ nnf.fenced = "true"
    /\ nnf' = [nnf EXCEPT !.fenced = "false"]

NnfInit ==
    /\ InitCommon
    /\ other = NoOther
    /\ nnf \in {[NoNnf EXCEPT !.ready = r, !.fenced = f] :
                   r \in ReadyStatus, f \in FencedValues}
    /\ queue = <<>>
    /\ rpc = "main"
    /\ raction = "reboot"
    /\ rid = None
    /\ now = 0
    /\ start_time = 0
    /\ rtimeout = SecondsToTicks(0)
    /\ tools = NoTools
    /\ variant = "custom"
    /\ wpc = "off"
    /\ older = 0
    /\ faults = 0
    /\ reqDir = [i \in Ids |-> NoFile]

NnfNext ==
    /\ \/ set_power_status
       \/ get_power_status
       \/ NodeChange
       \/ AdminUnfence
    /\ UNCHANGED <<rpc, raction, rtarget, rtimeout, rfs, rid, now, start_time,
                   rdata, rret, exitCode, audit, logs, other, preVars, dirVars,
                   watchVars, faults, histVars>>

SpecNnf == NnfInit /\ [][NnfNext]_vars

\* ---------------------------------------------------------------------------
\* Two invocations share REQUEST_DIR.  The other one has written its request
\* (OldId) and is in wait_for_fence_response with its own FENCE_TIMEOUT; the
\* invocation modelled in full starts at some later moment, beside a polling
\* Watcher that is slow or not running.  Times of the other invocation are in
\* seconds.
max_age_seconds == 300
\* FENCE_TIMEOUT as configured for the other invocation: the default and two
\* larger settings
ConfiguredTimeouts == {60, 300, 600}
\* moments (seconds since the other request was written) at which the
\* invocation modelled in full may start
StartOffsets == {0, 50, 250, 400, 700}
\* age = now - os.path.getmtime(filepath) of a file written `waited` seconds ago
AgedAfter(waited) == waited > max_age_seconds

\* time passes until the next offset: the other invocation sleeps in its
\* wait loop, or has left it because its timeout has passed, and its request
\* file grows older
OtherSleep ==
    /\ rpc = "main"
    /\ other.pc \in {"waiting", "done"}
    /\ \E a \in StartOffsets :
         /\ a > other.waited
         /\ \A b \in StartOffsets : b > other.waited => a <= b
         /\ other' = [other EXCEPT !.waited = a,
                                   !.pc = IF a < other.timeout THEN other.pc ELSE "done"]
         /\ reqDir' = [i \in Ids |->
                         IF i = OldId /\ Exists(reqDir[i])
                         THEN [reqDir[i] EXCEPT !.aged = AgedAfter(a)]
                         ELSE reqDir[i]]
    /\ UNCHANGED <<rpc, raction, rtarget, rtimeout, rfs, rid, now, start_time,
                   rdata, rret, exitCode, audit, logs, nnf, preVars, respDir,
                   watchVars, faults, histVars>>

SharedInit ==
    /\ InitCommon
    /\ nnf = NoNnf
    /\ other \in [pc : {"waiting"}, timeout : ConfiguredTimeouts, waited : {0}]
    /\ queue = <<>>
    /\ rpc = "main"
    /\ raction = "reboot"
    /\ rid = None
    /\ now = 0
    /\ start_time = 0
    /\ rtimeout = SecondsToTicks(2)
    /\ tools = NoTools
    /\ variant \in PollVariants
    /\ wpc \in {"off", "idle"}
    /\ older = 0
    /\ faults = 0
    /\ reqDir = [i \in Ids |-> IF i = OldId THEN OldRequest(FALSE) ELSE NoFile]

SharedNext ==
    \/ RequesterNext
    \/ OtherSleep
    \/ WatcherStart
    \/ Scan
    \/ ScanDone
    \/ ScanNext
    \/ Sample
    \/ SampleTimeout
    \/ ReadRequest
    \/ Fence
    \/ RespOpen
    \/ RespWrite
    \/ RemoveRequest

SpecShared == SharedInit /\ [][SharedNext]_vars

\* ---------------------------------------------------------------------------
\* wait_for_fence_response beside Response files that are not its own: the
\* Response of another request and one without an id, which other Watcher
\* runs create, rewrite and remove at any moment, while an external responder
\* may or may not answer the request itself
ForeignNames == {<<"", OldId>>, <<"", None>>}
ForeignFiles(n) ==
    {NoFile,
     [size |-> Chunks, aged |-> FALSE,
      data |-> ResponseData(n[2], TRUE, "off", "rabbit-03", <<"ok">>)],
     [size |-> Chunks, aged |-> FALSE, data |-> [kind |-> "garbage"]]}

ForeignChange ==
    /\ \E n \in ForeignNames : \E f \in ForeignFiles(n) :
         /\ f # respDir[n]
         /\ respDir' = [respDir EXCEPT ![n] = f]
    /\ UNCHANGED <<reqVars, reqDir, watchVars, faults, histVars>>

ForeignInit ==
    /\ InitCommon
    /\ other = NoOther
    /\ nnf = NoNnf
    /\ queue = <<>>
    /\ rpc = "poll"
    /\ raction = "reboot"
    /\ rid = NewId
    /\ now = 0
    /\ start_time = 0
    /\ rtimeout \in TimeoutChoices
    /\ tools = NoTools
    /\ variant = "custom"
    /\ wpc \in {"off", "idle"}
    /\ older = 0
    /\ faults = 0
    /\ reqDir = [i \in Ids |-> IF i = NewId
                                THEN [size |-> Chunks, aged |-> FALSE,
                                      data |-> RequestData(NewId, raction, rtarget,
                                                           NoneDetected)]
                                ELSE NoFile]

ForeignNext ==
    \/ Poll
    \/ Load
    \/ RemoveResponse
    \/ Final
    \/ CustomOpen
    \/ CustomWrite
    \/ ForeignChange

SpecForeign == ForeignInit /\ [][ForeignNext]_vars

\* ---------------------------------------------------------------------------
\* A Watcher (any of the four programs) that meets a leftover file,
\* well-formed or not, and then the request of a new invocation.  Either it
\* starts with the file already there, or it was running when the file
\* appeared; an event-driven one then has the file's event still queued
LoopInit ==
    /\ InitCommon
    /\ other = NoOther
    /\ nnf = NoNnf
    /\ rpc = "main"
    /\ raction = "reboot"
    /\ rid = None
    /\ now = 0
    /\ start_time = 0
    /\ rtimeout = SecondsToTicks(2)
    /\ tools = NoTools
    /\ variant \in PollVariants \cup EventVariants
    /\ wpc \in {"off", "idle"}
    /\ older = 0
    /\ faults = 0
    /\ reqDir \in {[i \in Ids |-> IF i = OldId THEN f ELSE NoFile] :
                      f \in {g \in LeftoverFiles(OldId) : Exists(g) /\ ~g.aged}}
    /\ queue = IF variant \in EventVariants /\ wpc = "idle" THEN <<OldId>> ELSE <<>>

LoopNext ==
    \/ MainDispatch
    \/ cleanup_old_requests
    \/ DiscoverAndRecord
    \/ OpenRequest
    \/ WriteRequest
    \/ WriteFailed
    \/ WatcherStart
    \/ Scan
    \/ ScanDone
    \/ ScanNext
    \/ Dispatch
    \/ Sample
    \/ SampleTimeout
    \/ ReadRequest
    \/ Fence
    \/ RespOpen
    \/ RespWrite
    \/ RemoveRequest

SpecLoop == LoopInit /\ [][LoopNext]_vars

\* ---------------------------------------------------------------------------
\* A Watcher that has been running for a while: its processed_files holds
\* the names of none, 999 or 1000 requests handled earlier (the programs that
\* keep such a set), a leftover request is in the directory and an invocation
\* of the Requester writes a new one
HasProcessedSet(v) == v \in PollVariants \cup {"fr_event"}
RecencyInit ==
    /\ InitCommon
    /\ other = NoOther
    /\ nnf = NoNnf
    /\ rpc = "main"
    /\ raction = "reboot"
    /\ rid = None
    /\ now = 0
    /\ start_time = 0
    /\ rtimeout = SecondsToTicks(2)
    /\ tools = NoTools
    /\ variant \in PollVariants \cup EventVariants
    /\ wpc = "idle"
    /\ older \in IF HasProcessedSet(variant)
                  THEN {0, ProcessedCap - 1, ProcessedCap} ELSE {0}
    /\ faults = 0
    /\ reqDir \in {[i \in Ids |-> IF i = OldId THEN f ELSE NoFile] :
                      f \in {g \in LeftoverFiles(OldId) : Exists(g) /\ ~g.aged}}
    /\ queue = IF variant \in EventVariants THEN <<OldId>> ELSE <<>>

RecencyNext ==
    \/ MainDispatch
    \/ cleanup_old_requests
    \/ DiscoverAndRecord
    \/ OpenRequest
    \/ WriteRequest
    \/ WriteFailed
    \/ Scan
    \/ ScanDone
    \/ ScanNext
    \/ Dispatch
    \/ Sample
    \/ SampleTimeout
    \/ ReadRequest
    \/ Fence
    \/ RespOpen
    \/ RespWrite
    \/ RemoveRequest

SpecRecency == RecencyInit /\ [][RecencyNext]_vars

\* ---------------------------------------------------------------------------
\* The Requester and a Watcher program, each scheduled fairly, in an
\* environment that injects no fault
FairInit ==
    /\ InitCommon
    /\ other = NoOther
    /\ nnf = NoNnf
    /\ queue = <<>>
    /\ rpc = "main"
    /\ rid = None
    /\ now = 0
    /\ start_time = 0
    /\ raction = "reboot"
    /\ rtimeout = SecondsToTicks(2)
    /\ tools \in {NoTools, KubectlTools}
    /\ variant # "custom"
    /\ wpc \in {"off", "idle"}
    /\ older = 0
    /\ faults = MaxFaults
    /\ reqDir = [i \in Ids |-> NoFile]

FairRequesterNext ==
    \/ MainDispatch
    \/ DiscoverAndRecord
    \/ OpenRequest
    \/ WriteRequest
    \/ Poll
    \/ Load
    \/ RemoveResponse
    \/ Final

FairNext == FairRequesterNext \/ WatcherNext

FairSpec ==
    /\ FairInit
    /\ [][FairNext]_vars
    /\ WF_vars(FairRequesterNext)
    /\ WF_vars(WatcherNext)

\* ================================================================== claims
Contains(text, word) == \E k \in 1..Len(text) : text[k] = word
LastEvent == audit[Len(audit)]
\* write_fence_request returned a request_id: main went on to the wait
ReachedWait == rid # None
\* wait_for_fence_response parsed the Response file of its own request_id
\* inside its loop, and the success field of that Response is true / false
ReadTrueResponse ==
    rSawComplete /\ rdata.kind = "object" /\ "success" \in rdata.keys /\ rdata.success
ReadFalseResponse ==
    rSawComplete /\ rdata.kind = "object" /\ "success" \in rdata.keys /\ ~rdata.success
\* wait_for_fence_response left through its timeout branch
TimedOut == rpc \in {"final", "done"} /\ rret = TimeoutResult(rtimeout)

\* C1: a non-monitor invocation exits 0 exactly when wait_for_fence_response
\* read, within its loop, a Response of its own request_id whose success field
\* is true; in every other case it exits 1.
C1_ExitCodeIffSuccess ==
    (rpc = "done" /\ raction # "monitor")
      => (exitCode \in {0, 1} /\ (exitCode = 0 <=> ReadTrueResponse))
C1_Witness ==
    rpc = "done" /\ raction # "monitor" /\ exitCode = 0 /\ ReadTrueResponse

\* C2: the Requester never applies json.load to a Response file that a
\* gfs2_recorder Watcher is still writing.
C2_NoPartialResponseParsed ==
    ~(rParsedPartial /\ variant \in {"gfs2_poll", "gfs2_event"})

\* C3: no Watcher applies json.load to the Request file while the Requester
\* is still writing it.
C3_NoPartialRequestParsed == ~wParsedPartial

\* C4: a complete Request file in the directory of a running Watcher is
\* eventually answered by exactly one Response and is then gone from the
\* request directory.
C4_EndToEnd ==
    \A i \in Ids :
      [] ((wpc # "off" /\ Complete(reqDir[i]))
            => <> (respWrites[i] = 1 /\ ~Exists(reqDir[i])))

\* C5 as claimed: at most one Response is ever written for a request_id.
C5_AtMostOneResponse == \A i \in Ids : respWrites[i] <= 1
\* C5 amended: the Responses written for a request_id number at most one
\* more than the clears of the processed set.
C5_OneResponsePerClear == \A i \in Ids : respWrites[i] <= 1 + clears
C5_Witness == \E i \in Ids : respWrites[i] = 2 /\ clears = 1

\* C6: between two clears of the processed set, perform_fence_action is
\* invoked at most once for a request filename.
C6_FenceAtMostOnce == \A i \in Ids : callsSinceClear[i] <= 1

\* C7: when no Response appears, wait_for_fence_response returns after at
\* least timeout and at most timeout + poll_interval.
C7_TimeoutBound ==
    TimedOut => /\ now - start_time >= rtimeout
                /\ now - start_time <= rtimeout + poll_interval
C7_Witness == TimedOut /\ rtimeout > 0 /\ now - start_time > rtimeout

\* C8 as claimed: the terminal AuditEvent of a timeout has status "timeout".
C8_TimeoutStatus == (rpc = "done" /\ TimedOut) => LastEvent.status = "timeout"
\* C8 amended: a timeout and an actuator-reported failure both end with
\* status "failed"; the timeout's details contain "timed out".
C8_TimeoutIsFailed ==
    (rpc = "done" /\ ReachedWait)
      => /\ TimedOut => /\ LastEvent.status = "failed"
                        /\ Contains(LastEvent.details, "timed out")
         /\ ReadFalseResponse => LastEvent.status = "failed"
C8_Witness == rpc = "done" /\ ReachedWait /\ TimedOut /\ rtimeout > 0

\* C9: with no Watcher running and a timeout of 2 s the Requester exits
\* non-zero within 2.5 s of starting to wait, and its terminal AuditEvent has
\* status failed and "timed out" in its details.
NoWatcherScenario ==
    rpc = "done" /\ ReachedWait /\ wpc = "off" /\ rtimeout = SecondsToTicks(2)
C9_NoWatcherTimeout ==
    NoWatcherScenario
      => /\ exitCode = 1
         /\ now - start_time <= SecondsToTicks(2) + poll_interval
         /\ LastEvent.status = "failed"
         /\ Contains(LastEvent.details, "timed out")
C9_Witness ==
    NoWatcherScenario /\ TimedOut /\ exitCode = 1 /\ now - start_time = SecondsToTicks(2)

\* C10: after the wait, the last AuditEvent has status completed exactly
\* when the exit code is 0 and failed exactly when it is not; a reboot of
\* rabbit-03 whose success Response the Requester read ends 0 / completed.
RebootScenario ==
    /\ raction = "reboot" /\ rtarget = "rabbit-03"
    /\ variant \in {"gfs2_poll", "gfs2_event"}
    /\ ReadTrueResponse
Stage ==
    CASE rpc = "main" -> 9 [] rpc = "sweep" -> 8 [] rpc = "discover" -> 7
      [] rpc = "open_request" -> 6 [] rpc = "write_request" -> 5
      [] rpc = "poll" -> 4 [] rpc = "load" -> 3 [] rpc = "remove" -> 2
      [] rpc \in {"final", "write_failed"} -> 1 [] rpc = "done" -> 0
Inner ==
    CASE rpc = "sweep" -> 2 * Cardinality(rlist) + (IF rfile # None THEN 1 ELSE 0)
      [] rpc = "write_request" -> Chunks - reqDir[NewId].size
      [] rpc = "poll" -> IF now - start_time < rtimeout
                         THEN 1 + rtimeout - (now - start_time) ELSE 0
      [] OTHER -> 0
Rank == 100 * Stage + Inner
C12_SweepRemovesOld ==
    (rpc = "discover" /\ faults = 0)
      => \A i \in Ids : ~(Exists(reqDir[i]) /\ reqDir[i].aged)

\* C13: every file the sweep has removed was older than max_age_seconds, and
\* none of them was a file still being written.
C13_SweepSpares ==
    \A g \in gcRemoved : g.file.aged /\ Complete(g.file)
C13_Witness ==
    /\ rpc = "discover" /\ gcRemoved # {}
    /\ \E i \in Ids : Exists(reqDir[i]) /\ ~Complete(reqDir[i]) /\ ~(i \in rlist)

\* ------------------------------------------------------------- discovery
\* discover_gfs2_filesystems let an exception through / returned a list
DiscoveryRaised == dtrace # <<>> /\ dtrace[Len(dtrace)].ret.kind = "raised"
DiscoveryReturned ==
    raction # "monitor" /\ ~(rpc \in {"main", "sweep", "discover"}) /\ ~DiscoveryRaised
NonEmptyList(r) == r.kind = "list" /\ Len(r.v) > 0
TierOrder == <<"kubectl", "dlm", "pacemaker">>
\* what the tier can return in this invocation's tool environment
PossibleReturns(tier) ==
    CASE tier = "kubectl" -> {try_kubectl_discovery(tools.which, tools.kubectl)}
      [] tier = "dlm" -> try_dlm_discovery(tools.dlm)
      [] tier = "pacemaker" -> try_pacemaker_discovery(tools.pcs)

\* C14: enabled discovery calls the tiers in the order kubectl, DLM, Pacemaker
\* configuration, stops at the first one that returns a non-empty list and
\* returns exactly that list; with kubectl unavailable and the DLM tier
\* returning [fs-a, fs-b] the result is [fs-a, fs-b].
C14_FallbackOrder ==
    (DiscoveryReturned /\ tools.env)
      => LET n == Len(dtrace) IN
         /\ n \in 1..3
         /\ \A k \in 1..n : /\ dtrace[k].tier = TierOrder[k]
                            /\ dtrace[k].ret \in PossibleReturns(TierOrder[k])
         /\ \A k \in 1..(n - 1) : ~NonEmptyList(dtrace[k].ret)
         /\ IF NonEmptyList(dtrace[n].ret) THEN rfs = dtrace[n].ret.v ELSE n = 3
         /\ (tools.which # "found" /\ n >= 2
               /\ dtrace[2].ret = TierList(<<"fs-a", "fs-b">>))
              => rfs = <<"fs-a", "fs-b">>
C14_Witness ==
    /\ DiscoveryReturned /\ tools.env /\ tools.which = "notfound"
    /\ Len(dtrace) = 2 /\ dtrace[2].ret = TierList(<<"fs-a", "fs-b">>)
    /\ rfs = <<"fs-a", "fs-b">>

\* C15: the list discovery returns is never empty: it is ["discovery-disabled"]
\* with no tier called when the environment variable turns discovery off,
\* ["none-detected"] when every tier came back empty, and the two differ.
C15_NeverEmpty ==
    DiscoveryReturned
      => /\ Len(rfs) > 0
         /\ ~tools.env => (rfs = <<"discovery-disabled">> /\ dtrace = <<>>)
         /\ (tools.env /\ \A k \in 1..Len(dtrace) : ~NonEmptyList(dtrace[k].ret))
              => rfs = <<"none-detected">>
         /\ <<"discovery-disabled">> # <<"none-detected">>
C15_Witness ==
    DiscoveryReturned /\ tools.env /\ Len(dtrace) = 3 /\ rfs = <<"none-detected">>

\* C16: discover_gfs2_filesystems never lets an exception reach main.
C16_DiscoveryNeverRaises == ~DiscoveryRaised

\* C17: with --no-gfs2-discovery no tier is called, and the AuditEvents and
\* the FenceRequest carry ["discovery-disabled"].
C17_OptionDisablesDiscovery ==
    (tools.opt /\ raction # "monitor" /\ ~(rpc \in {"main", "sweep", "discover"}))
      => /\ dtrace = <<>>
         /\ rfs = <<"discovery-disabled">>
         /\ \A k \in 1..Len(audit) :
              audit[k].gfs2_filesystems = <<"discovery-disabled">>
         /\ Exists(reqDir[NewId]) => reqDir[NewId].data.fs = <<"discovery-disabled">>

\* C18: a monitor invocation writes no request, removes nothing, records no
\* AuditEvent and touches no response; it exits non-zero when LOG_DIR is not
\* writable and 0 otherwise.
C18_MonitorProbe ==
    (raction = "monitor" /\ rpc = "done")
      => /\ audit = <<>>
         /\ ~Exists(reqDir[NewId])
         /\ gcRemoved = {} /\ rlist = {}
         /\ \A n \in RespNames : respDir[n] = NoFile
         /\ rdata = NoData
         /\ probe = "unwritable" => exitCode # 0
         /\ probe = "writable" => exitCode = 0

\* ------------------------------------------------------- write failure
\* write_fence_request returned None in this invocation
WriteFailureRun ==
    /\ rpc \in {"write_failed", "done"}
    /\ raction # "monitor" /\ ~DiscoveryRaised /\ rid = None

\* C19: when the request file cannot be written the invocation records a
\* "failed" AuditEvent after the "requested" one, exits 1 and never waits for
\* a response: no sleep, no response read, no result of a wait.
C19_WriteFailure ==
    WriteFailureRun
      => /\ now = 0 /\ rdata = NoData /\ rret = NoRet /\ ~rSawComplete
         /\ ~Complete(reqDir[NewId])
         /\ rpc = "done"
              => /\ Len(audit) = 2
                 /\ audit[1].status = "requested"
                 /\ audit[2].status = "failed"
                 /\ exitCode = 1
C19_Witness ==
    /\ WriteFailureRun /\ rpc = "done" /\ exitCode = 1
    /\ LastEvent.status = "failed"
    /\ Exists(reqDir[NewId]) /\ ~Complete(reqDir[NewId])

\* ---------------------------------------------------- malformed requests
\* the Watcher has parsed a request file and is acting on it
WatcherActing == wpc \in {"fence", "resp_open", "resp_write", "remove"}

\* C20: a request file that is not JSON, not a JSON object, or lacks
\* request_id, action or target_node is dropped: the Watcher acts only on a
\* request carrying the three keys, and no Response is written for a request
\* without an id.
C20_MalformedDropped ==
    /\ WatcherActing
         => /\ wreq.request_id # None
            /\ wreq.action # None
            /\ wreq.target_node # None
    /\ respWrites[None] = 0
    /\ \A n \in RespNames : Exists(respDir[n]) => n[2] # None

\* ------------------------------------------------------ the Watcher's loop
\* an event-driven Watcher with nothing queued is waiting for the observer
WatcherWaiting == variant \in EventVariants /\ wpc = "idle" /\ queue = <<>>

\* C21: a failure while processing one request file (unreadable, unparsable,
\* the fence action raising, the response write failing, the request removal
\* failing, the completeness wait timing out) leaves the Watcher in its loop:
\* the step that fails returns to the scan or to the observer with the
\* per-file locals dropped, and a started Watcher always has a next step
\* unless it is waiting for an event.
C21_LoopSurvives ==
    /\ [][(wfail' # wfail /\ wfail' # None)
            => /\ wpc' = (IF variant \in PollVariants THEN "iter" ELSE "idle")
               /\ wcur' = None /\ wreq' = NoReq]_vars
    /\ []((wpc # "off" /\ ~WatcherWaiting)
            => ENABLED (Scan \/ ScanDone \/ ScanNext \/ Dispatch \/ Sample
                          \/ SampleTimeout \/ ReadRequest \/ Fence \/ RespOpen
                          \/ RespWrite \/ RemoveRequest))
\* after a parse failure on the leftover file the event-driven Watcher has
\* answered the new request and removed it
C21_Witness ==
    /\ variant = "gfs2_event" /\ wpc = "idle" /\ queue = <<>>
    /\ Exists(reqDir[OldId]) /\ json_load(reqDir[OldId]) = ParseError
    /\ wfail = None /\ fenceCalls[OldId] = 0
    /\ respWrites[NewId] = 1
    /\ Complete(respDir[WatcherResponseFile(variant, rtarget, NewId)])
    /\ ~Exists(reqDir[NewId])

\* the request the Watcher parsed carries the three keys
WellFormed(req) ==
    req.request_id # None /\ req.action # None /\ req.target_node # None

\* C22: every call of the fence-action unit for a well-formed request,
\* whether it returns success, returns failure or raises, is followed by the
\* writing of a Response; after a failure that Response has success = false
\* and a message.
C22_ActuationFailureReported ==
    /\ [][(wpc = "fence" /\ WellFormed(wreq) /\ wpc' # "fence")
            => /\ wpc' = "resp_open"
               /\ Len(wres'.message) > 0]_vars
    /\ [](wpc = "resp_write"
            => /\ respDir[CurrentResponseFile].data.success = wres.success
               /\ respDir[CurrentResponseFile].data.message = wres.message)

\* ------------------------------------------------------------ request ids
\* the request files whose payload carries this request_id
FilesOf(id) ==
    {i \in Ids : /\ Exists(reqDir[i]) /\ reqDir[i].data.kind = "object"
                 /\ reqDir[i].data.request_id = id}

C24_ParsedIdIsFileName == WatcherActing => wreq.request_id = wcur
C24_Witness ==
    /\ wpc = "fence" /\ wcur = NewId /\ wreq.request_id = NewId
    /\ Complete(reqDir[NewId])

\* ---------------------------------------------------------- response paths
\* C25: a Response file written by a Watcher has the request_id of its
\* payload in its name, the target node as the prefix of its name, and is at
\* the path the Requester polls for that request_id.
C25_ResponsePath ==
    variant # "custom"
      => \A n \in RespNames :
           Exists(respDir[n])
             => /\ respDir[n].data.request_id = n[2]
                /\ n[1] = respDir[n].data.target_node
                /\ n = RequesterResponseFile(n[2])

\* C26: Response files that are not the one of the invocation's request_id
\* have no part in its outcome: no step of the Requester changes one, what it
\* parses is never the content of one, its exit code is 0 exactly when its
\* own Response said success, and with no Response of its own it times out
\* and exits 1 whatever else is in the response directory.
C26_ForeignResponsesIgnored ==
    /\ [][(\E n \in ForeignNames : respDir'[n] # respDir[n]) => UNCHANGED reqVars]_vars
    /\ [](rdata \in {NoData} \cup CustomContents(NewId, raction, rtarget))
    /\ []((rdata.kind = "object") => rdata.request_id = rid)
    /\ [](rpc = "done" => (exitCode = 0 <=> ReadTrueResponse))
    /\ []((rpc = "done" /\ wpc = "off") => (TimedOut /\ exitCode = 1))
\* timed out while a complete success Response of another request was there
C26_Witness ==
    /\ rpc = "done" /\ wpc = "off" /\ exitCode = 1 /\ TimedOut
    /\ rtimeout = SecondsToTicks(2)
    /\ Complete(respDir[<<"", OldId>>]) /\ respDir[<<"", OldId>>].data.kind = "object"
    /\ respDir[<<"", OldId>>].data.success

\* ------------------------------------------------- the two Watcher strategies
\* a complete, well-formed request file the Watcher has not processed
Pending(i) ==
    /\ Complete(reqDir[i]) /\ reqDir[i].data.kind = "object"
    /\ reqDir[i].data.keys = {"request_id", "action", "target_node"}
    /\ ~(i \in processed)

\* C27: the event-driven and the polling Watcher do the same with the same
\* request files: an idle Watcher with a pending request in the directory,
\* a file that was there when it started included, goes on to take up a
\* request, and the fence-action unit is called with action, target node and
\* the filesystem list.
C27_SameContract ==
    /\ (wpc = "idle" /\ \E i \in Ids : Pending(i)) => ENABLED (Scan \/ Dispatch)
    /\ wpc = "fence" => Len(FenceArgs(variant, wreq)) = 3

\* C28: the filesystem list a Watcher parses from the Requester's request
\* and hands to the fence-action unit is the list the Requester wrote.
C28_FilesystemListAgrees ==
    (wpc = "fence" /\ wcur = NewId)
      => /\ wreq.fs = rfs
         /\ Len(FenceArgs(variant, wreq)) = 3
         /\ FenceArgs(variant, wreq)[3] = rfs


\* C29: each call of record_fence_event appends one line to the JSON-lines
\* file and one line to the readable file, the line of the event it records;
\* an append that fails leaves its own file as it was and the other append
\* still happens; no earlier line of either file is removed or changed, the
\* call returns to its caller (which goes on to the Request write, or exits
\* with the code of the recorded outcome), and no other step touches the files.
C29_OneLinePerFile ==
    /\ [][IF audit' # audit
          THEN LET ev == audit'[Len(audit')] IN
               /\ Len(audit') = Len(audit) + 1
               /\ logs'.json \in {logs.json, Append(logs.json, JsonLine(ev))}
               /\ logs'.readable \in {logs.readable, Append(logs.readable, ReadableLine(ev))}
               /\ tools.log = "ok" => /\ logs'.json = Append(logs.json, JsonLine(ev))
                                      /\ logs'.readable = Append(logs.readable, ReadableLine(ev))
               /\ rpc' \in {"open_request", "done"}
               /\ rpc' = "done" => exitCode' = (IF ev.status = "completed" THEN 0 ELSE 1)
          ELSE logs' = logs]_vars
    /\ [](/\ Len(logs.json) >= Len(EarlierLogs.json)
          /\ SubSeq(logs.json, 1, Len(EarlierLogs.json)) = EarlierLogs.json
          /\ Len(logs.readable) >= Len(EarlierLogs.readable)
          /\ SubSeq(logs.readable, 1, Len(EarlierLogs.readable)) = EarlierLogs.readable)
\* the invocation is over: both events reached the JSON-lines file, and of the
\* two appends to the readable file one failed and the other did not
C29_Witness ==
    /\ rpc = "done"
    /\ Len(audit) = 2
    /\ logs.json = EarlierLogs.json \o <<JsonLine(audit[1]), JsonLine(audit[2])>>
    /\ logs.readable = Append(EarlierLogs.readable, ReadableLine(audit[2]))


\* the steps of main() after the monitor branch, by the position reached
StepOrder ==
    /\ rpc \in {"main", "sweep", "discover"}
         => audit = <<>> /\ rid = None /\ ~Exists(reqDir[NewId]) /\ rret = NoRet
    /\ rpc \in {"open_request", "write_request", "write_failed"}
         => Len(audit) = 1 /\ audit[1].status = "requested" /\ rret = NoRet /\ now = 0
    /\ Exists(reqDir[NewId]) => Len(audit) >= 1 /\ audit[1].status = "requested"
    /\ rpc \in {"poll", "load", "remove", "final"}
         => Len(audit) = 1 /\ audit[1].status = "requested" /\ rid = NewId
    /\ rpc = "done"
         => /\ Len(audit) = 2
            /\ audit[1].status = "requested"
            /\ audit[2].status \in {"completed", "failed"}
            /\ rid = None \/ rret # NoRet

\* C30: a non-monitor invocation goes through sweep, discovery, the "requested"
\* AuditEvent, the Request write, the wait and the terminal AuditEvent in this
\* order; when it has exited exactly two events are recorded, the first
\* "requested" and recorded before the Request file exists, the second
\* "completed" or "failed" and recorded by the step that exits.
C30_StepOrder ==
    /\ [](raction # "monitor" => StepOrder)
    /\ [][raction # "monitor" /\ rpc' # rpc => Stage' < Stage]_vars
    /\ [][raction # "monitor" /\ audit' # audit /\ Len(audit) >= 1 => rpc' = "done"]_vars
    /\ [][raction # "monitor" /\ rpc' = "done" /\ rpc # "done" => audit' # audit]_vars


\* ------------------------------------------------- completeness detection
\* the Watcher goes on to open and parse the file it has taken up
StartsParsing == wpc # "read" /\ wpc' = "read"

\* C31: a Watcher goes on to parse a request file only from the sampling
\* wait, when the size it samples is non-zero and equal to the size of the
\* previous sample (a missing or empty file never passes); when the wait
\* window is over the file is abandoned unparsed, stays in the directory and
\* is not entered in the processed set.
C31_CompletenessDetection ==
    /\ [][StartsParsing
            => /\ wpc = "sample"
               /\ Exists(reqDir[wcur])
               /\ reqDir[wcur].size > 0
               /\ reqDir[wcur].size = wlast]_vars
    /\ [][(wpc = "sample" /\ wsamples >= SampleWindow /\ wpc' # "sample")
            => /\ wpc' \in {"iter", "idle"}
               /\ wreq' = NoReq
               /\ reqDir' = reqDir
               /\ processed' = processed
               /\ fenceCalls' = fenceCalls]_vars


\* ------------------------------------------- order within one processing
\* a request file that is in the directory before the step and not after it
Removed(i) == Exists(reqDir[i]) /\ ~Exists(reqDir'[i])

\* C32: within the processing of one request the Watcher calls the fence
\* action, then writes the Response, then removes the request file: it turns
\* to the Response only from the fence call, to the removal only from the
\* write of the last chunk of a Response carrying the request's id, and it
\* removes no request file but the one whose Response it has just written;
\* the removal, failed or not, leaves every Response file as it is and the
\* Watcher in its loop.
C32_ProcessingOrder ==
    /\ [][(wpc' = "resp_open" /\ wpc # "resp_open")
            => /\ wpc = "fence"
               /\ fenceCalls'[wcur] = fenceCalls[wcur] + 1]_vars
    /\ [][(wpc' = "remove" /\ wpc # "remove")
            => /\ wpc = "resp_write"
               /\ fenceCalls[wcur] >= 1
               /\ Complete(respDir'[CurrentResponseFile])
               /\ respDir'[CurrentResponseFile].data.request_id = wreq.request_id
               /\ reqDir' = reqDir]_vars
    /\ [][\A i \in Ids :
            Removed(i) => \/ rpc = "sweep" /\ rfile = i
                          \/ /\ wpc = "remove" /\ wcur = i
                             /\ respWrites[wreq.request_id] >= 1]_vars
    /\ [][(wpc = "remove" /\ wpc' # "remove")
            => /\ respDir' = respDir
               /\ respWrites' = respWrites
               /\ wpc' \in {"iter", "idle"}
               /\ reqDir'[wcur] \in {reqDir[wcur], NoFile}]_vars
\* the removal of the request failed: the request is still there, its
\* Response is complete, and the Watcher is back in its loop
C32_Witness ==
    /\ wfail = "remove" /\ wpc \in {"iter", "idle"}
    /\ Complete(reqDir[OldId]) /\ respWrites[OldId] = 1
    /\ \E n \in RespNames : /\ Complete(respDir[n])
                            /\ respDir[n].data.request_id = OldId


\* ------------------------------------------------------- the recency set
\* len(processed_files)
SetSize == Cardinality(processed) + older
\* the Watcher is between two files: in its scan, sleeping, or in the observer
BetweenFiles == wpc \in {"idle", "iter"}

\* C33: every Watcher keeps a set of the names it has handled and looks a
\* name up in it before processing: a file it takes up is not in the set, a
\* request it has answered is in the set afterwards unless the set has just
\* been cleared, and between two files the set never holds more than 1000
\* names.
C33_BoundedRecencySet ==
    /\ [](BetweenFiles => SetSize <= ProcessedCap)
    /\ [][(wcur = None /\ wcur' # None) => wcur' \notin processed]_vars
    /\ [][(wpc = "remove" /\ wpc' # "remove")
            => \/ wcur \in processed'
               \/ processed' = {} /\ older' = 0 /\ SetSize > ProcessedCap - 1]_vars


\* ---------------------------------------------------------- stale responses
\* a Response file carrying this request_id is in the response directory
ResponseKept(i) ==
    \E n \in RespNames : /\ n[2] = i /\ Exists(respDir[n])
                         /\ respDir[n].data.kind = "object"
                         /\ respDir[n].data.request_id = i

\* C34: a Response the Watcher has written for the request of an earlier
\* invocation, or for this invocation's request once its wait has timed out,
\* stays in the response directory through every step of the sweep and of the
\* invocation, and what the invocation parses is never the Response of the
\* earlier request.
C34_StaleResponseStays ==
    /\ respWrites[OldId] >= 1 => ResponseKept(OldId)
    /\ (TimedOut /\ respWrites[NewId] >= 1) => ResponseKept(NewId)
    /\ rdata.kind = "object" => rdata.request_id # OldId
\* the invocation has timed out and exited; the Watcher has since answered
\* both the earlier request and this one, and both Responses are there
C34_Witness ==
    /\ rpc = "done" /\ TimedOut /\ rtimeout = SecondsToTicks(2)
    /\ respWrites[OldId] = 1 /\ respWrites[NewId] = 1
    /\ Complete(respDir[<<"", OldId>>]) /\ Complete(respDir[<<"", NewId>>])
    /\ gcRemoved = {}


\* ------------------------------------------- the polling Watcher's retries
\* C35: in the polling Watcher a filename joins the processed set only in the
\* step that ends a processing whose Response has been written; a processing
\* that failed before that (wait timed out, unreadable or unparsable file,
\* fence action raising, Response open or write failing) leaves the set as
\* it was, and the scan takes up every listed file that is not in the set.
C35_ProcessedOnlyIfAnswered ==
    /\ [][(variant \in PollVariants /\ processed' # processed /\ processed' # {})
            => /\ wpc = "remove"
               /\ processed' = processed \cup {wcur}
               /\ respWrites[wreq.request_id] >= 1]_vars
    /\ [][(variant \in PollVariants /\ wfail' # wfail
             /\ wfail' \in {"wait", "read", "parse", "fence", "resp"})
            => /\ processed' = processed /\ older' = older
               /\ wpc' = "iter"]_vars
    /\ [][(variant \in PollVariants /\ wpc = "iter" /\ wscan' # wscan)
            => \A f \in wscan \ wscan' : f \notin processed => wcur' = f]_vars
\* one processing failed at or after the fence call; the next scan called
\* the fence action for the same request again and answered it
C35_Witness ==
    /\ variant \in PollVariants /\ clears = 0
    /\ fenceCalls[OldId] = 2 /\ respWrites[OldId] = 1
    /\ OldId \in processed /\ faults = 1


\* ------------------------------------------------ invocations side by side
\* C36: the sweep of one invocation removes no request file that another
\* invocation is still waiting on and that no Watcher has answered, whatever
\* FENCE_TIMEOUT the other invocation runs with.
C36_SweepSparesWaitedOn ==
    [][(rpc = "sweep" /\ Removed(OldId))
         => ~(other.pc = "waiting" /\ respWrites[OldId] = 0)]_vars


\* ---------------------------------------------- reading the own Response
\* the Response file wait_for_fence_response has found and is about to open
OwnResponse == respDir[<<"", rid>>]

\* C37: when json.load of the Response file succeeds the Requester goes on
\* to remove the file, and leaves the wait with the same result whether the
\* removal succeeds or fails; when the file cannot be opened or parsed the
\* wait is left in that very step with (False, .., "error"): no sleep, no
\* further look at the directory, the file left as it is.
C37_ResponseRead ==
    /\ [][(rpc = "load" /\ rpc' = "remove")
            => /\ Complete(OwnResponse) /\ OwnResponse.data.kind # "garbage"
               /\ rdata' = OwnResponse.data
               /\ respDir' = respDir]_vars
    /\ [][(rpc = "remove" /\ rpc' # "remove")
            => /\ rpc' = "final"
               /\ respDir'[<<"", rid>>] = NoFile \/ respDir' = respDir
               /\ \A n \in RespNames : n # <<"", rid>> => respDir'[n] = respDir[n]
               /\ rret'.success = (/\ rdata.kind = "object"
                                   /\ "success" \in rdata.keys
                                   /\ rdata.success)
               /\ rdata.kind # "object" => rret'.actual_action = "error"]_vars
    /\ [][(rpc = "load" /\ rpc' \notin {"load", "remove"})
            => /\ rpc' = "final"
               /\ ~rret'.success /\ rret'.actual_action = "error"
               /\ now' = now
               /\ respDir' = respDir]_vars
    /\ [](rpc = "final" => rret # NoRet)
\* the responder's file is no JSON: the invocation has exited 1 with the
\* parse failure before its timeout has passed, and the file is still there
C37_Witness ==
    /\ rpc = "done" /\ exitCode = 1 /\ rret.actual_action = "error"
    /\ rdata = NoData /\ faults = 0
    /\ now - start_time < rtimeout
    /\ Complete(respDir[<<"", rid>>]) /\ respDir[<<"", rid>>].data.kind = "garbage"


\* ------------------------------------------------- the power-state agent
\* the step is a call of set_power_status / get_power_status
SetCalled == nnf'.calls = nnf.calls + 1 /\ nnf'.op = "set"
GetCalled == nnf'.calls = nnf.calls + 1 /\ nnf'.op = "get"

\* C38: set_power_status with action "on" issues no read and no patch and
\* leaves the NNF node resource as it is; with any other action, when it
\* returns, status.fenced is true, it has patched exactly when fenced was not
\* true before, and it has never made a true field false; get_power_status
\* returns "off" for a node that is not Ready, without reading the NNF
\* resource, and "off" for a Ready node whose fenced field is true.
C38_PowerStatus ==
    /\ [][(SetCalled /\ nnf'.arg = "on")
            => /\ nnf'.reads = nnf.reads /\ nnf'.patches = nnf.patches
               /\ nnf'.fenced = nnf.fenced /\ nnf'.result = "returned"]_vars
    /\ [][(SetCalled /\ nnf'.arg # "on" /\ nnf'.result = "returned")
            => /\ nnf'.fenced = "true"
               /\ nnf'.reads = nnf.reads + 1
               /\ nnf'.patches = nnf.patches + (IF nnf.fenced = "true" THEN 0 ELSE 1)]_vars
    /\ [][SetCalled => (nnf.fenced = "true" => nnf'.fenced = "true")]_vars
    /\ [][SetCalled => nnf'.fenced \in {nnf.fenced, "true"}]_vars
    /\ [][(GetCalled /\ nnf'.result = "returned")
            => /\ nnf.ready # "True" => nnf'.status = "off" /\ nnf'.reads = nnf.reads
               /\ (nnf.ready = "True" /\ nnf.fenced = "true") => nnf'.status = "off"
               /\ nnf'.fenced = nnf.fenced /\ nnf'.patches = nnf.patches]_vars
\* fenced twice in a row with one patch, then reported "off" on a Ready node
C38_Witness ==
    /\ nnf.calls = 3 /\ nnf.patches = 1 /\ nnf.reads = 3
    /\ nnf.op = "get" /\ nnf.status = "off"
    /\ nnf.ready = "True" /\ nnf.fenced = "true"

====
